---- MODULE Spec2Model ----
(***************************************************************************)
(* Model of fetch_prices.py: the Twelve Data adapter (td_price,            *)
(* td_series), the Yahoo resolver (yf_last_price_smart), the aligner       *)
(* (align_join), the estimator (estimate_k) and main, which chains them    *)
(* and writes the snapshot to data.json.                                   *)
(*                                                                         *)
(* Python floats are modelled exactly: a float is a record                 *)
(*   [c |-> class, n |-> numerator, d |-> denominator]                     *)
(* with class "fin" (the rational n/d, d > 0, in lowest terms), "nan",     *)
(* "inf", "ninf"; the class "none" is Python's None and the class "raise"  *)
(* stands for an exception raised while computing the value.  Rounding,    *)
(* overflow and underflow of IEEE doubles are not modelled.                *)
(***************************************************************************)
EXTENDS Integers, Sequences, FiniteSets, TLC

\* ------------------------------------------------------------------ bounds
\* rows of the longest series a provider returns in the model
MaxRows == 5
\* longest window handed to estimate_k / longest series handed to align_join
\* when the two are checked as functions
MaxWin == 5
\* largest tail requested from align_join when checked as a function
MaxTail == 2

\* ------------------------------------------------------------------ floats
Fl(c, n, d) == [c |-> c, n |-> n, d |-> d]
None  == Fl("none", 0, 1)
NaN   == Fl("nan", 0, 1)
Inf   == Fl("inf", 0, 1)
NInf  == Fl("ninf", 0, 1)
Raise == Fl("raise", 0, 1)

Abs(a) == IF a < 0 THEN -a ELSE a

RECURSIVE Gcd(_, _)
Gcd(a, b) == IF b = 0 THEN a ELSE Gcd(b, a % b)

\* the rational n/d (d # 0) in lowest terms with a positive denominator
Rat(n, d) ==
  LET g == Gcd(Abs(n), Abs(d))
      s == IF d < 0 THEN -1 ELSE 1
  IN Fl("fin", s * (n \div g), Abs(d) \div g)

Fin(n) == Fl("fin", n, 1)

\* math.isfinite / np.isfinite
isfinite(v) == v.c = "fin"
\* pandas' isna: the value dropna() removes
isna(v) == v.c = "nan" \/ v.c = "none"
\* Python truthiness of a float-or-None: None and 0.0 are falsy, NaN and the
\* infinities are truthy
Truthy(v) == v.c # "none" /\ ~(v.c = "fin" /\ v.n = 0)

Sign(v) == IF v.c = "inf" THEN 1
           ELSE IF v.c = "ninf" THEN -1
           ELSE IF v.n > 0 THEN 1 ELSE IF v.n < 0 THEN -1 ELSE 0

SignedInf(s) == IF s > 0 THEN Inf ELSE NInf

\* a * b on floats
FMul(a, b) ==
  IF a.c = "nan" \/ b.c = "nan" THEN NaN
  ELSE IF a.c = "fin" /\ b.c = "fin" THEN Rat(a.n * b.n, a.d * b.d)
  ELSE IF Sign(a) = 0 \/ Sign(b) = 0 THEN NaN
  ELSE SignedInf(Sign(a) * Sign(b))

\* a + b on floats
FAdd(a, b) ==
  IF a.c = "nan" \/ b.c = "nan" THEN NaN
  ELSE IF a.c = "fin" /\ b.c = "fin" THEN Rat(a.n * b.d + b.n * a.d, a.d * b.d)
  ELSE IF a.c = "fin" THEN b
  ELSE IF b.c = "fin" THEN a
  ELSE IF a.c = b.c THEN a ELSE NaN

\* a - b on floats
FSub(a, b) == FAdd(a, FMul(Fin(-1), b))

\* a / b on Python floats: division by zero raises ZeroDivisionError
FDiv(a, b) ==
  IF b.c = "fin" /\ b.n = 0 THEN Raise
  ELSE IF a.c = "nan" \/ b.c = "nan" THEN NaN
  ELSE IF a.c = "fin" /\ b.c = "fin" THEN Rat(a.n * b.d, a.d * b.n)
  ELSE IF a.c = "fin" THEN Fin(0)
  ELSE IF b.c = "fin" THEN SignedInf(Sign(a) * Sign(b))
  ELSE NaN

\* a < b on floats: every comparison with NaN is False
FLt(a, b) ==
  IF a.c = "nan" \/ b.c = "nan" THEN FALSE
  ELSE IF a.c = "fin" /\ b.c = "fin" THEN a.n * b.d < b.n * a.d
  ELSE IF a.c = b.c THEN FALSE
  ELSE a.c = "ninf" \/ b.c = "inf"

\* a <= b on floats
FLe(a, b) == IF a.c = "nan" \/ b.c = "nan" THEN FALSE ELSE ~FLt(b, a)

\* ------------------------------------------------------- JSON scalar values
\* a value of a JSON field as json.loads hands it to float(): a number or
\* numeric string, the strings "NaN" / "Infinity", a non-numeric string, or
\* a missing field (dict.get gives None)
JNum(n)  == [r |-> "num", v |-> n]
JNaN     == [r |-> "nan", v |-> 0]
JInf     == [r |-> "inf", v |-> 0]
JBad     == [r |-> "bad", v |-> 0]
JMissing == [r |-> "missing", v |-> 0]

\* float(x): ValueError on a non-numeric string, TypeError on None
pyfloat(x) ==
  CASE x.r = "num" -> Fin(x.v)
    [] x.r = "nan" -> NaN
    [] x.r = "inf" -> Inf
    [] OTHER -> Raise

\* ------------------------------------------------------------- timestamps
\* the timestamp slot of a live price: None, str() of a bar's index value,
\* the ISO string of a quote, or the sentinel "fast_info"
NoTs        == <<>>
BarTs(t)    == <<"bar", t>>
IsoTs(t)    == <<"iso", t>>
FastInfoTs  == <<"fast_info">>

\* ------------------------------------------------------------------ series
\* a pandas Series is a sequence of rows [ts, v] in index order; NoSeries is
\* Python's None, which differs from the empty Series
NoSeries    == [some |-> FALSE, rows |-> <<>>]
Series(rs)  == [some |-> TRUE, rows |-> rs]
Row(t, v)   == [ts |-> t, v |-> v]

\* Series.dropna()
RECURSIVE dropna(_)
dropna(rs) ==
  IF rs = <<>> THEN <<>>
  ELSE IF isna(Head(rs).v) THEN dropna(Tail(rs))
  ELSE <<Head(rs)>> \o dropna(Tail(rs))

\* Series.tail(n) / DataFrame.tail(n) for n > 0
tail(rs, n) == IF Len(rs) <= n THEN rs ELSE SubSeq(rs, Len(rs) - n + 1, Len(rs))

\* ------------------------------------------------------------ environment
\* str.strip() on a string given as a sequence of characters
RECURSIVE lstrip(_)
lstrip(s) == IF s # <<>> /\ Head(s) = " " THEN lstrip(Tail(s)) ELSE s

RECURSIVE rstrip(_)
rstrip(s) == IF s # <<>> /\ s[Len(s)] = " " THEN rstrip(SubSeq(s, 1, Len(s) - 1)) ELSE s

strip(s) == rstrip(lstrip(s))

\* the key read without .strip(): a blank value counts as a key
TD_KEY_nostrip(env) == env

\* TD_KEY = os.environ.get("TWELVE_API_KEY", "").strip(); an unset variable
\* reads as the empty string
TD_KEY(env) == strip(env)

\* ---------------------------------------------------- Twelve Data adapter
\* A response to http_get is [st, ...]: st = "neterr" when urlopen raises,
\* "malformed" when json.loads raises, "ok" with the decoded JSON object.

\* td_price: the result (price, iso_time) and the number of requests made
td_price(key, resp) ==
  IF key = <<>> THEN [p |-> None, t |-> NoTs, calls |-> 0]
  ELSE IF resp.st # "ok" THEN [p |-> None, t |-> NoTs, calls |-> 1]
  ELSE IF pyfloat(resp.price) = Raise THEN [p |-> None, t |-> NoTs, calls |-> 1]
  ELSE [p |-> pyfloat(resp.price), t |-> resp.datetime, calls |-> 1]

\* the rows loop of td_series: (datetime, float(close)) for every value
td_rows(values) ==
  [i \in 1..Len(values) |-> Row(values[i].datetime, pyfloat(values[i].close))]

\* td_series: the result (a Series or None) and the number of requests made
td_series(key, resp) ==
  IF key = <<>> THEN [s |-> NoSeries, calls |-> 0]
  ELSE IF resp.st # "ok" THEN [s |-> NoSeries, calls |-> 1]
  ELSE IF ~resp.has_values THEN [s |-> NoSeries, calls |-> 1]
  ELSE IF \E i \in 1..Len(resp.values) : pyfloat(resp.values[i].close) = Raise
       THEN [s |-> NoSeries, calls |-> 1]
  ELSE IF resp.values = <<>> THEN [s |-> NoSeries, calls |-> 1]
  ELSE [s |-> Series(td_rows(resp.values)), calls |-> 1]

\* ------------------------------------------------------------ Yahoo adapter
\* A response to yf.Ticker(t).history(...) is [st, rows]: st = "raise" when
\* the call raises, "none" when it returns None, "ok" with the frame's Close
\* column as rows (floats, NaN and infinities included).  tz_convert keeps
\* the instant, so a bar's timestamp is modelled by its instant.

\* hist_last (inside yf_last_price_smart): (price, timestamp)
hist_last(resp) ==
  IF resp.st # "ok" \/ Len(resp.rows) = 0 THEN [p |-> None, t |-> NoTs]
  ELSE LET close == dropna(resp.rows)
       IN IF Len(close) > 0
          THEN [p |-> close[Len(close)].v, t |-> BarTs(close[Len(close)].ts)]
          ELSE [p |-> None, t |-> NoTs]

\* the fast_info step of yf_last_price_smart; resp is [st, last_price] with
\* st = "raise" when fast_info, get or isfinite raises
fast_info_last(resp) ==
  IF resp.st = "ok" /\ Truthy(resp.last_price) /\ isfinite(resp.last_price)
  THEN [p |-> resp.last_price, t |-> FastInfoTs]
  ELSE [p |-> None, t |-> NoTs]

\* yf_series_close: history(...)["Close"].dropna(), None on any exception
\* (subscripting a None frame raises too)
yf_series_close(resp) ==
  IF resp.st # "ok" THEN NoSeries ELSE Series(dropna(resp.rows))

\* ----------------------------------------------------------------- aligner
NoFrame   == [some |-> FALSE, rows |-> <<>>]
Frame(rs) == [some |-> TRUE, rows |-> rs]

Index(s) == {s.rows[i].ts : i \in 1..Len(s.rows)}

RECURSIVE SortAsc(_)
SortAsc(S) ==
  IF S = {} THEN <<>>
  ELSE LET m == CHOOSE a \in S : \A b \in S : a <= b
       IN <<m>> \o SortAsc(S \ {m})

\* the cell of series s at index value t in the concatenated frame: NaN
\* where s has no such index value
At(s, t) ==
  IF t \in Index(s)
  THEN s.rows[CHOOSE i \in 1..Len(s.rows) : s.rows[i].ts = t].v
  ELSE NaN

\* pd.concat([x, j, e], axis=1): outer join on the index, in index order
concat(x, j, e) ==
  LET idx == SortAsc(Index(x) \cup Index(j) \cup Index(e))
  IN [i \in 1..Len(idx) |->
        [ts |-> idx[i], xau |-> At(x, idx[i]), jpy |-> At(j, idx[i]), etf |-> At(e, idx[i])]]

\* DataFrame.dropna(): rows with a NaN in any column go
RECURSIVE dropna_frame(_)
dropna_frame(rs) ==
  IF rs = <<>> THEN <<>>
  ELSE IF isna(Head(rs).xau) \/ isna(Head(rs).jpy) \/ isna(Head(rs).etf)
       THEN dropna_frame(Tail(rs))
  ELSE <<Head(rs)>> \o dropna_frame(Tail(rs))

\* df[np.isfinite(df).all(1)]
RECURSIVE finite_rows(_)
finite_rows(rs) ==
  IF rs = <<>> THEN <<>>
  ELSE IF isfinite(Head(rs).xau) /\ isfinite(Head(rs).jpy) /\ isfinite(Head(rs).etf)
       THEN <<Head(rs)>> \o finite_rows(Tail(rs))
  ELSE finite_rows(Tail(rs))

\* align_join(x, j, e, tail); tl = 0 stands for tail=None (both are falsy
\* in `if tail:`)
align_join(x, j, e, tl) ==
  IF ~x.some \/ ~j.some \/ ~e.some THEN NoFrame
  ELSE LET joined == dropna_frame(concat(x, j, e))
           cut    == IF tl # 0 THEN tail(joined, tl) ELSE joined
           df     == finite_rows(cut)
       IN IF Len(df) > 0 THEN Frame(df) ELSE NoFrame

\* --------------------------------------------------------------- estimator
\* an estimator that accepts a window one row shorter
MIN_ROWS_low == 5 - 1

\* rows an estimate needs (len(df) < 5 gives None)
MIN_ROWS == 5

\* (X*Y).sum() with X = xau*jpy, Y = etf; pandas' sum skips NaN terms
RECURSIVE SumXY(_)
SumXY(rs) ==
  IF rs = <<>> THEN Fin(0)
  ELSE LET r == Head(rs)
           term == FMul(FMul(r.xau, r.jpy), r.etf)
       IN IF isna(term) THEN SumXY(Tail(rs)) ELSE FAdd(term, SumXY(Tail(rs)))

\* (X*X).sum()
RECURSIVE SumXX(_)
SumXX(rs) ==
  IF rs = <<>> THEN Fin(0)
  ELSE LET r == Head(rs)
           x == FMul(r.xau, r.jpy)
           term == FMul(x, x)
       IN IF isna(term) THEN SumXX(Tail(rs)) ELSE FAdd(term, SumXX(Tail(rs)))

\* estimate_k(df)
estimate_k(df) ==
  IF ~df.some \/ Len(df.rows) < MIN_ROWS THEN None
  ELSE LET num == SumXY(df.rows)
           den == SumXX(df.rows)
       IN IF FLe(den, Fin(0)) THEN None ELSE FDiv(num, den)

\* ------------------------------------------------------ provider responses
\* The environments the run is started in: TWELVE_API_KEY unset, blank, set
Environs == { <<>>, <<" ", " ">>, <<"k", " ">> }

QuoteOk(price, dt) == [st |-> "ok", price |-> price, datetime |-> dt]
QuoteFail(st)      == [st |-> st, price |-> JMissing, datetime |-> NoTs]

\* /quote responses: transport failure, undecodable body, an error object
\* (no "price"), a non-numeric price, and prices in and out of range
QuoteResponses(symbol) ==
  { QuoteFail("neterr"), QuoteFail("malformed"), QuoteOk(JMissing, NoTs),
    QuoteOk(JBad, IsoTs(1)), QuoteOk(JNaN, IsoTs(1)) }
  \cup (IF symbol = "XAU/USD"
        THEN { QuoteOk(JNum(2000), IsoTs(1)), QuoteOk(JNum(0), IsoTs(1)),
               QuoteOk(JNum(9000), IsoTs(1)) }
        ELSE { QuoteOk(JNum(150), IsoTs(1)), QuoteOk(JNum(600), IsoTs(1)) })

\* rows a provider returns for a request of at most outputsize rows
SeriesLen(outputsize) == IF outputsize < MaxRows THEN outputsize ELSE MaxRows

\* the close of bar i of a symbol in the model's market
TdClose(symbol, i) == IF symbol = "XAU/USD" THEN i ELSE 2

TdValues(symbol, n, shift) ==
  [i \in 1..n |-> [datetime |-> i + shift, close |-> JNum(TdClose(symbol, i))]]

TdOk(values) == [st |-> "ok", has_values |-> TRUE, values |-> values]

WithLastClose(values, c) ==
  [i \in 1..Len(values) |-> IF i = Len(values) THEN [values[i] EXCEPT !.close = c] ELSE values[i]]

\* /time_series responses: transport failure, undecodable body, an error
\* object (no "values"), an empty list, full series on two time grids, and
\* series whose closes are non-numeric or NaN
TdSeriesResponses(symbol, outputsize) ==
  LET n == SeriesLen(outputsize)
      a == TdValues(symbol, n, 0)
  IN { [st |-> "neterr", has_values |-> FALSE, values |-> <<>>],
       [st |-> "malformed", has_values |-> FALSE, values |-> <<>>],
       [st |-> "ok", has_values |-> FALSE, values |-> <<>>],
       TdOk(<<>>), TdOk(a), TdOk(TdValues(symbol, n, 1)),
       TdOk(WithLastClose(a, JBad)), TdOk(WithLastClose(a, JNaN)),
       TdOk(<<[datetime |-> 1, close |-> JNaN]>>) }

HistFail(st) == [st |-> st, rows |-> <<>>]
HistOk(rows) == [st |-> "ok", rows |-> rows]

\* the Close of bar i of a ticker at a granularity in the model's market
YfClose(ticker, interval, i) ==
  IF ticker = "XAUUSD=X" THEN i
  ELSE IF ticker = "JPY=X" THEN 2
  ELSE 4 * i + (CASE interval = "1m" -> 0 [] interval = "5m" -> 1
                  [] interval = "15m" -> 2 [] OTHER -> 3)

\* history() responses: an exception, an empty frame, a frame whose Close is
\* all NaN, a full frame
HistResponses(ticker, period, interval) ==
  { HistFail("raise"), HistOk(<<>>), HistOk(<<Row(1, NaN)>>),
    HistOk([i \in 1..MaxRows |-> Row(i, Fin(YfClose(ticker, interval, i)))]) }

\* fast_info responses: an exception, no last_price, zero, NaN, a price
FastInfoResponses ==
  { [st |-> "raise", last_price |-> None], [st |-> "ok", last_price |-> None],
    [st |-> "ok", last_price |-> Fin(0)], [st |-> "ok", last_price |-> NaN],
    [st |-> "ok", last_price |-> Fin(30)] }

\* ---------------------------------------------------------------- snapshot
\* windows of the three modes: df_day.tail(3), df_5.tail(36), df_15.tail(32)
DAY_ALIGN_TAIL == 10
\* a day window as long as the alignment's tail
DAY_WINDOW_wide == DAY_ALIGN_TAIL
DAY_WINDOW == 3
WINDOW_5M == 36
WINDOW_15M == 32
\* output sizes requested from /time_series
FALLBACK_SIZE == 5
SERIES_SIZE == 200

\* calc(the_k) inside main, with the live prices it closes over
calc(the_k, xau, jpy, etf) ==
  IF Truthy(the_k) /\ Truthy(xau) /\ Truthy(jpy) /\ Truthy(etf)
  THEN LET theo == FMul(FMul(xau, jpy), the_k)
           q    == FDiv(etf, theo)
       IN [theo |-> theo, dev |-> IF q = Raise THEN Raise ELSE FSub(q, Fin(1))]
  ELSE [theo |-> None, dev |-> None]

\* the plausibility checks of main
XAU_LOW == 1000
XAU_HIGH == 8000
JPY_LOW == 50
JPY_HIGH == 500
warn_list(xau, jpy) ==
  (IF Truthy(xau) /\ FLt(xau, Fin(XAU_LOW)) THEN <<"XAU/USD too low?">> ELSE <<>>)
  \o (IF Truthy(xau) /\ FLt(Fin(XAU_HIGH), xau) THEN <<"XAU/USD too high?">> ELSE <<>>)
  \o (IF Truthy(jpy) /\ (FLt(jpy, Fin(JPY_LOW)) \/ FLt(Fin(JPY_HIGH), jpy))
      THEN <<"USD/JPY out of range?">> ELSE <<>>)

\* the dict main dumps to data.json; has_warnings says whether the key
\* "warnings" is in it
Snapshot(xau, jpy, etf, txau, tjpy, tetf, kd, k5, k15) ==
  LET cd  == calc(kd, xau, jpy, etf)
      c5  == calc(k5, xau, jpy, etf)
      c15 == calc(k15, xau, jpy, etf)
      warn == warn_list(xau, jpy)
  IN [written |-> TRUE,
      xauusd |-> xau, usdjpy |-> jpy, price1540 |-> etf,
      time_src |-> [xau |-> txau, jpy |-> tjpy, etf |-> tetf],
      k_day |-> kd, theo_day |-> cd.theo, dev_day |-> cd.dev,
      k_5m |-> k5, theo_5m |-> c5.theo, dev_5m |-> c5.dev,
      k_15m |-> k15, theo_15m |-> c15.theo, dev_15m |-> c15.dev,
      has_warnings |-> warn # <<>>, warnings |-> warn]

\* data.json before the run writes it
NoFile == [Snapshot(None, None, None, NoTs, NoTs, NoTs, None, None, None)
             EXCEPT !.written = FALSE]

\* ------------------------------------------------------------------- state
VARIABLES
  environ,     \* the value of TWELVE_API_KEY in the process environment
  pc,          \* the call main is about to make, "done" or "crashed"
  xauusd, t_xau, usdjpy, t_jpy,   \* live gold and FX price and their time
  quote_xau, quote_jpy,           \* what td_price returned for each (history)
  price1540, t_etf,               \* live ETF price and its time
  log,         \* the strategies yf_last_price_smart has tried, with responses
  xs, js,      \* the gold and FX series of the mode being computed
  k_day, k_5m, k_15m,
  df_rows,     \* rows of the frame align_join returned for the last mode (history)
  data_json,   \* the content of data.json
  net,         \* requests sent to Twelve Data
  fn, arg, ret, applied   \* a single function applied to one input

mainVars == <<environ, pc, xauusd, t_xau, usdjpy, t_jpy, quote_xau, quote_jpy,
              price1540, t_etf, log, xs, js, k_day, k_5m, k_15m, df_rows, data_json, net>>
fnVars == <<fn, arg, ret, applied>>
vars == <<mainVars, fnVars>>

NoQuote == [p |-> None, t |-> NoTs]

\* the locals of main before its first statement
MainStart ==
  /\ xauusd = None /\ t_xau = NoTs /\ usdjpy = None /\ t_jpy = NoTs
  /\ quote_xau = NoQuote /\ quote_jpy = NoQuote
  /\ price1540 = None /\ t_etf = NoTs
  /\ log = <<>>
  /\ xs = NoSeries /\ js = NoSeries
  /\ k_day = None /\ k_5m = None /\ k_15m = None
  /\ df_rows = 0
  /\ data_json = NoFile
  /\ net = 0

Init ==
  /\ environ \in Environs
  /\ pc = "td_price_xau"
  /\ MainStart
  /\ fn = "main" /\ arg = <<>> /\ ret = <<>> /\ applied = FALSE

\* -------------------------------------------------------------------- main
\* xauusd, t_xau = td_price("XAU/USD")
TdPriceXau ==
  /\ pc = "td_price_xau"
  /\ \E resp \in QuoteResponses("XAU/USD") :
       LET r == td_price(TD_KEY(environ), resp)
       IN /\ xauusd' = r.p /\ t_xau' = r.t
          /\ quote_xau' = [p |-> r.p, t |-> r.t]
          /\ net' = net + r.calls
  /\ pc' = "td_price_jpy"
  /\ UNCHANGED <<environ, usdjpy, t_jpy, quote_jpy, price1540, t_etf, log, xs, js,
                 k_day, k_5m, k_15m, data_json, df_rows, fnVars>>

\* usdjpy, t_jpy = td_price("USD/JPY"), then the test of the fallback
TdPriceJpy ==
  /\ pc = "td_price_jpy"
  /\ \E resp \in QuoteResponses("USD/JPY") :
       LET r == td_price(TD_KEY(environ), resp)
       IN /\ usdjpy' = r.p /\ t_jpy' = r.t
          /\ quote_jpy' = [p |-> r.p, t |-> r.t]
          /\ net' = net + r.calls
          /\ pc' = IF xauusd = None \/ r.p = None THEN "fallback" ELSE "yf_1m"
  /\ UNCHANGED <<environ, xauusd, t_xau, quote_xau, price1540, t_etf, log, xs, js,
                 k_day, k_5m, k_15m, data_json, df_rows, fnVars>>

\* the fallback block: both 5-minute series are fetched, then each present
\* series overwrites its live price with float(s.dropna().iloc[-1]); iloc[-1]
\* of an empty Series raises IndexError, which nothing catches
Fallback ==
  /\ pc = "fallback"
  /\ \E rx \in TdSeriesResponses("XAU/USD", FALLBACK_SIZE),
        rj \in TdSeriesResponses("USD/JPY", FALLBACK_SIZE) :
       LET x5 == td_series(TD_KEY(environ), rx)
           j5 == td_series(TD_KEY(environ), rj)
           cx == dropna(x5.s.rows)
           cj == dropna(j5.s.rows)
           xraise == x5.s.some /\ cx = <<>>
           jraise == j5.s.some /\ cj = <<>>
       IN /\ net' = net + x5.calls + j5.calls
          /\ IF x5.s.some /\ ~xraise
             THEN xauusd' = cx[Len(cx)].v /\ t_xau' = BarTs(cx[Len(cx)].ts)
             ELSE UNCHANGED <<xauusd, t_xau>>
          /\ IF j5.s.some /\ ~xraise /\ ~jraise
             THEN usdjpy' = cj[Len(cj)].v /\ t_jpy' = BarTs(cj[Len(cj)].ts)
             ELSE UNCHANGED <<usdjpy, t_jpy>>
          /\ pc' = IF xraise \/ jraise THEN "crashed" ELSE "yf_1m"
  /\ UNCHANGED <<environ, quote_xau, quote_jpy, price1540, t_etf, log, xs, js,
                 k_day, k_5m, k_15m, data_json, df_rows, fnVars>>

\* one history strategy of yf_last_price_smart("1540.T"): p, ts =
\* hist_last(period, interval); if p is not None: return p, ts.  The last
\* strategy returns (None, None) when it fails too.
HistStep(here, period, interval, next) ==
  /\ pc = here
  /\ \E resp \in HistResponses("1540.T", period, interval) :
       LET r == hist_last(resp)
       IN /\ log' = Append(log, [strategy |-> here, resp |-> resp])
          /\ IF r.p # None
             THEN price1540' = r.p /\ t_etf' = r.t /\ pc' = "x_day"
             ELSE /\ price1540' = None /\ t_etf' = NoTs
                  /\ pc' = IF next = "return" THEN "x_day" ELSE next
  /\ UNCHANGED <<environ, xauusd, t_xau, usdjpy, t_jpy, quote_xau, quote_jpy, xs, js,
                 k_day, k_5m, k_15m, data_json, df_rows, net, fnVars>>

Yf1m  == HistStep("yf_1m", "1d", "1m", "yf_5m")
\* a chain that goes from the 5-minute history straight to fast_info
Yf5m_skip == HistStep("yf_5m", "5d", "5m", "yf_fast_info")
Yf5m  == HistStep("yf_5m", "5d", "5m", "yf_15m")
Yf15m == HistStep("yf_15m", "60d", "15m", "yf_fast_info")
Yf1d  == HistStep("yf_1d", "5d", "1d", "return")

\* the fast_info strategy, between the 15-minute and the daily history
YfFastInfo ==
  /\ pc = "yf_fast_info"
  /\ \E resp \in FastInfoResponses :
       LET r == fast_info_last(resp)
       IN /\ log' = Append(log, [strategy |-> "yf_fast_info", resp |-> resp])
          /\ IF r.p # None
             THEN price1540' = r.p /\ t_etf' = r.t /\ pc' = "x_day"
             ELSE price1540' = None /\ t_etf' = NoTs /\ pc' = "yf_1d"
  /\ UNCHANGED <<environ, xauusd, t_xau, usdjpy, t_jpy, quote_xau, quote_jpy, xs, js,
                 k_day, k_5m, k_15m, data_json, df_rows, net, fnVars>>

\* x_day = yf_series_close("XAUUSD=X","1mo","1d"); the resolver's frame is gone
XDay ==
  /\ pc = "x_day"
  /\ \E resp \in HistResponses("XAUUSD=X", "1mo", "1d") : xs' = yf_series_close(resp)
  /\ log' = <<>>
  /\ pc' = "j_day"
  /\ UNCHANGED <<environ, xauusd, t_xau, usdjpy, t_jpy, quote_xau, quote_jpy,
                 price1540, t_etf, js, k_day, k_5m, k_15m, data_json, df_rows, net, fnVars>>

\* j_day = yf_series_close("JPY=X","1mo","1d")
JDay ==
  /\ pc = "j_day"
  /\ \E resp \in HistResponses("JPY=X", "1mo", "1d") : js' = yf_series_close(resp)
  /\ pc' = "e_day"
  /\ UNCHANGED <<environ, xauusd, t_xau, usdjpy, t_jpy, quote_xau, quote_jpy,
                 price1540, t_etf, log, xs, k_day, k_5m, k_15m, data_json, df_rows, net, fnVars>>

\* the window of a mode: estimate_k(df.tail(window)) if df is not None
mode_k(df, window) ==
  IF df.some THEN estimate_k(Frame(tail(df.rows, window))) ELSE None

\* e_day, df_day = align_join(x_day, j_day, e_day, tail=10), k_day; the day
\* series are not read again
EDay ==
  /\ pc = "e_day"
  /\ \E resp \in HistResponses("1540.T", "1mo", "1d") :
       LET df_day == align_join(xs, js, yf_series_close(resp), DAY_ALIGN_TAIL)
       IN k_day' = mode_k(df_day, DAY_WINDOW) /\ df_rows' = Len(df_day.rows)
  /\ xs' = NoSeries /\ js' = NoSeries
  /\ pc' = "x_5"
  /\ UNCHANGED <<environ, xauusd, t_xau, usdjpy, t_jpy, quote_xau, quote_jpy,
                 price1540, t_etf, log, k_5m, k_15m, data_json, net, fnVars>>

\* x_5 / x_15 = td_series("XAU/USD", interval, 200)
TdX(here, next) ==
  /\ pc = here
  /\ \E resp \in TdSeriesResponses("XAU/USD", SERIES_SIZE) :
       LET r == td_series(TD_KEY(environ), resp)
       IN xs' = r.s /\ net' = net + r.calls
  /\ df_rows' = 0
  /\ pc' = next
  /\ UNCHANGED <<environ, xauusd, t_xau, usdjpy, t_jpy, quote_xau, quote_jpy,
                 price1540, t_etf, log, js, k_day, k_5m, k_15m, data_json, fnVars>>

\* j_5 / j_15 = td_series("USD/JPY", interval, 200)
TdJ(here, next) ==
  /\ pc = here
  /\ \E resp \in TdSeriesResponses("USD/JPY", SERIES_SIZE) :
       LET r == td_series(TD_KEY(environ), resp)
       IN js' = r.s /\ net' = net + r.calls
  /\ pc' = next
  /\ UNCHANGED <<environ, xauusd, t_xau, usdjpy, t_jpy, quote_xau, quote_jpy,
                 price1540, t_etf, log, xs, k_day, k_5m, k_15m, data_json, df_rows, fnVars>>

X5  == TdX("x_5", "j_5")
J5  == TdJ("j_5", "e_5")
X15 == TdX("x_15", "j_15")
J15 == TdJ("j_15", "e_15")

\* e_5, df_5 = align_join(x_5, j_5, e_5), k_5m
E5 ==
  /\ pc = "e_5"
  /\ \E resp \in HistResponses("1540.T", "5d", "5m") :
       LET df_5 == align_join(xs, js, yf_series_close(resp), 0)
       IN k_5m' = mode_k(df_5, WINDOW_5M) /\ df_rows' = Len(df_5.rows)
  /\ xs' = NoSeries /\ js' = NoSeries
  /\ pc' = "x_15"
  /\ UNCHANGED <<environ, xauusd, t_xau, usdjpy, t_jpy, quote_xau, quote_jpy,
                 price1540, t_etf, log, k_day, k_15m, data_json, net, fnVars>>

\* e_15, df_15 = align_join(x_15, j_15, e_15), k_15m
E15 ==
  /\ pc = "e_15"
  /\ \E resp \in HistResponses("1540.T", "60d", "15m") :
       LET df_15 == align_join(xs, js, yf_series_close(resp), 0)
       IN k_15m' = mode_k(df_15, WINDOW_15M) /\ df_rows' = Len(df_15.rows)
  /\ xs' = NoSeries /\ js' = NoSeries
  /\ pc' = "calc"
  /\ UNCHANGED <<environ, xauusd, t_xau, usdjpy, t_jpy, quote_xau, quote_jpy,
                 price1540, t_etf, log, k_day, k_5m, data_json, net, fnVars>>

\* calc for the three modes, the out dict, the warnings, json.dump; a
\* ZeroDivisionError in calc ends the run before the file is opened
Write ==
  /\ pc = "calc"
  /\ LET out == Snapshot(xauusd, usdjpy, price1540, t_xau, t_jpy, t_etf,
                         k_day, k_5m, k_15m)
     IN IF Raise \in {out.dev_day, out.dev_5m, out.dev_15m}
        THEN pc' = "crashed" /\ UNCHANGED data_json
        ELSE pc' = "done" /\ data_json' = out
  /\ df_rows' = 0
  /\ UNCHANGED <<environ, xauusd, t_xau, usdjpy, t_jpy, quote_xau, quote_jpy,
                 price1540, t_etf, log, xs, js, k_day, k_5m, k_15m, net, fnVars>>

Next ==
  \/ TdPriceXau \/ TdPriceJpy \/ Fallback
  \/ Yf1m \/ Yf5m \/ Yf15m \/ YfFastInfo \/ Yf1d
  \/ XDay \/ JDay \/ EDay
  \/ X5 \/ J5 \/ E5
  \/ X15 \/ J15 \/ E15
  \/ Write

Spec == Init /\ [][Next]_vars

\* ------------------------------------------- the functions, one at a time
\* index values of the series handed to align_join
MaxTs == 3

\* (xau, jpy, etf) of the rows of the windows handed to estimate_k
RowKinds == { <<0, 1, 1>>, <<1, 1, 2>>, <<2, 1, 1>>, <<-1, 2, 3>> }

WindowOf(f) ==
  Frame([i \in DOMAIN f |->
           [ts |-> i, xau |-> Fin(f[i][1]), jpy |-> Fin(f[i][2]), etf |-> Fin(f[i][3])]])

\* x = [1,2,3,4,5], y = [2,4,6,8,10]
ExampleWindow == WindowOf([i \in 1..5 |-> <<i, 1, 2 * i>>])

Windows ==
  {NoFrame, ExampleWindow}
  \cup UNION { {WindowOf(f) : f \in [1..n -> RowKinds]} : n \in 0..MaxWin }

\* the series with, at each index value t of f, nothing, t, NaN or infinity
RECURSIVE RowsOf(_, _)
RowsOf(f, t) ==
  IF t > MaxTs THEN <<>>
  ELSE (CASE f[t] = "fin" -> <<Row(t, Fin(t))>>
          [] f[t] = "nan" -> <<Row(t, NaN)>>
          [] f[t] = "inf" -> <<Row(t, Inf)>>
          [] OTHER -> <<>>) \o RowsOf(f, t + 1)

SeriesOf(f) == Series(RowsOf(f, 1))

AllFin == [t \in 1..MaxTs |-> "fin"]

AlignX ==
  {NoSeries} \cup {SeriesOf(f) : f \in [1..MaxTs -> {"none", "fin", "nan", "inf"}]}
AlignJ ==
  { NoSeries, SeriesOf(AllFin), SeriesOf([AllFin EXCEPT ![1] = "none"]),
    SeriesOf([AllFin EXCEPT ![MaxTs] = "nan"]), SeriesOf([AllFin EXCEPT ![1] = "inf"]) }
AlignE ==
  { NoSeries, SeriesOf(AllFin), SeriesOf([AllFin EXCEPT ![MaxTs] = "none"]),
    SeriesOf([AllFin EXCEPT ![1] = "nan"]), SeriesOf([AllFin EXCEPT ![MaxTs] = "inf"]) }

Span(a, b) == Series([i \in 1..(b - a + 1) |-> Row(a + i - 1, Fin(a + i - 1))])

\* series of 10, 8 and 12 rows with 6 index values in common
ExampleAlign == [x |-> Span(1, 10), j |-> Span(5, 12), e |-> Span(5, 16), tl |-> 0]

AlignArgs ==
  {ExampleAlign}
  \cup {[x |-> x, j |-> j, e |-> e, tl |-> tl] :
          x \in AlignX, j \in AlignJ, e \in AlignE, tl \in 0..MaxTail}

Keys == { <<>>, <<"k">> }

TdPriceArgs ==
  {[key |-> k, resp |-> r] :
     k \in Keys,
     r \in QuoteResponses("XAU/USD") \cup QuoteResponses("USD/JPY")
           \cup {QuoteOk(JInf, IsoTs(1)), QuoteOk(JNum(150), NoTs)}}

TdSeriesArgs ==
  {[key |-> k, resp |-> r] :
     k \in Keys,
     r \in TdSeriesResponses("XAU/USD", SERIES_SIZE)
           \cup TdSeriesResponses("USD/JPY", FALLBACK_SIZE)
           \cup {TdOk(WithLastClose(TdValues("XAU/USD", 2, 0), JInf)),
                 TdOk(<<[datetime |-> 1, close |-> JBad]>>)}}

InitFn ==
  /\ environ = <<>>
  /\ pc = "fn"
  /\ MainStart
  /\ \/ fn = "estimate_k" /\ arg \in Windows
     \/ fn = "align_join" /\ arg \in AlignArgs
     \/ fn = "td_price" /\ arg \in TdPriceArgs
     \/ fn = "td_series" /\ arg \in TdSeriesArgs
  /\ ret = <<>>
  /\ applied = FALSE

ApplyEstimateK ==
  /\ fn = "estimate_k" /\ ~applied
  /\ ret' = estimate_k(arg)
  /\ applied' = TRUE
  /\ UNCHANGED <<mainVars, fn, arg>>

ApplyAlignJoin ==
  /\ fn = "align_join" /\ ~applied
  /\ ret' = align_join(arg.x, arg.j, arg.e, arg.tl)
  /\ applied' = TRUE
  /\ UNCHANGED <<mainVars, fn, arg>>

ApplyTdPrice ==
  /\ fn = "td_price" /\ ~applied
  /\ ret' = td_price(arg.key, arg.resp)
  /\ applied' = TRUE
  /\ UNCHANGED <<mainVars, fn, arg>>

ApplyTdSeries ==
  /\ fn = "td_series" /\ ~applied
  /\ ret' = td_series(arg.key, arg.resp)
  /\ applied' = TRUE
  /\ UNCHANGED <<mainVars, fn, arg>>

NextFn == ApplyEstimateK \/ ApplyAlignJoin \/ ApplyTdPrice \/ ApplyTdSeries

SpecFn == InitFn /\ [][NextFn]_vars

\* ------------------------------------------------------------------ claims
\* the chain of yf_last_price_smart, by the position of each strategy
Chain == <<"yf_1m", "yf_5m", "yf_15m", "yf_fast_info", "yf_1d">>

\* the rows of a history response that carry a price
Priced(resp) == {i \in 1..Len(resp.rows) : resp.rows[i].v.c # "nan"}

\* a strategy succeeds when its provider answered with a usable price: a
\* history with at least one priced bar, a fast_info with a finite nonzero
\* last_price
Succeeds(a) ==
  IF a.strategy = "yf_fast_info"
  THEN a.resp.st = "ok" /\ a.resp.last_price.c = "fin" /\ a.resp.last_price.n # 0
  ELSE a.resp.st = "ok" /\ Priced(a.resp) # {}

LastPriced(resp) == CHOOSE i \in Priced(resp) : \A k \in Priced(resp) : k <= i

PriceOf(a) ==
  IF a.strategy = "yf_fast_info" THEN a.resp.last_price
  ELSE a.resp.rows[LastPriced(a.resp)].v

StampOf(a) ==
  IF a.strategy = "yf_fast_info" THEN FastInfoTs
  ELSE BarTs(a.resp.rows[LastPriced(a.resp)].ts)

\* C1: yf_last_price_smart tries its strategies in the order 1m, 5m, 15m,
\* fast_info, 1d; it stops at the first that succeeds and returns that
\* strategy's price with the bar's timestamp (the sentinel "fast_info" for
\* the fourth); when all five fail it returns (None, None); it never raises.
C1_FirstSuccessWins ==
  /\ Len(log) <= Len(Chain)
  /\ \A i \in 1..Len(log) : log[i].strategy = Chain[i]
  /\ \A i \in 1..(Len(log) - 1) : ~Succeeds(log[i])
  /\ log # <<>> => pc # "crashed"
  /\ \A i \in 2..Len(Chain) :
       pc = Chain[i] => Len(log) = i - 1 /\ ~Succeeds(log[i - 1]) /\ price1540 = None
  /\ (pc = "x_day") =>
       /\ log # <<>>
       /\ IF Succeeds(log[Len(log)])
          THEN price1540 = PriceOf(log[Len(log)]) /\ t_etf = StampOf(log[Len(log)])
          ELSE Len(log) = Len(Chain) /\ price1540 = None /\ t_etf = NoTs

\* the three histories before it failed and fast_info answered
C1_Witness ==
  /\ pc = "x_day" /\ Len(log) = 4
  /\ t_etf = FastInfoTs /\ price1540 = Fin(30)

\* the resolver returned from the second strategy with that bar's price
C1_WitnessSecond ==
  /\ pc = "x_day" /\ Len(log) = 2 /\ price1540 = Fin(4 * MaxRows + 1)

\* C2: for XAU/USD and USD/JPY independently, the live price and timestamp
\* are the quote's whenever that instrument's quote succeeded; the series
\* tail is used only when that instrument's own quote is absent.
C2_QuoteWins ==
  pc \notin {"td_price_xau", "td_price_jpy", "fallback"} =>
    /\ quote_xau.p # None => xauusd = quote_xau.p /\ t_xau = quote_xau.t
    /\ quote_jpy.p # None => usdjpy = quote_jpy.p /\ t_jpy = quote_jpy.t

PresentOnlyIfValid(k, theo, dev) ==
  (theo # None \/ dev # None) =>
    /\ isfinite(k) /\ isfinite(data_json.xauusd) /\ isfinite(data_json.usdjpy)
    /\ isfinite(data_json.price1540)
    /\ isfinite(theo) /\ theo.n # 0

\* C3: in every snapshot, theo and dev of a mode are present only if the
\* mode's k and the three live prices are present and finite and theo is
\* nonzero, and a k is present only if it is a finite number estimated from
\* a window of at least 5 rows.
C3_PresentOnlyIfValid ==
  /\ data_json.written =>
       /\ PresentOnlyIfValid(data_json.k_day, data_json.theo_day, data_json.dev_day)
       /\ PresentOnlyIfValid(data_json.k_5m, data_json.theo_5m, data_json.dev_5m)
       /\ PresentOnlyIfValid(data_json.k_15m, data_json.theo_15m, data_json.dev_15m)
  /\ \A k \in {k_day, k_5m, k_15m} : k # None => isfinite(k)
  /\ (pc = "x_15" /\ k_5m # None) => df_rows >= 5
  /\ (pc = "calc" /\ k_15m # None) => df_rows >= 5

\* C4: whatever the providers answer, main ends without an unhandled
\* exception: it never stops before data.json is written.
C4_NeverCrashes == pc # "crashed"

\* TWELVE_API_KEY is unset or holds only blanks
KeyBlank == \A i \in 1..Len(environ) : environ[i] = " "

AllAbsent(s) ==
  /\ s.xauusd = None /\ s.usdjpy = None
  /\ s.theo_day = None /\ s.dev_day = None
  /\ s.theo_5m = None /\ s.dev_5m = None
  /\ s.theo_15m = None /\ s.dev_15m = None

\* C5: with TWELVE_API_KEY unset or blank no request is sent to Twelve
\* Data, the quotes and series are absent, and the run still goes on to
\* write a snapshot whose xauusd, usdjpy and all theo and dev are absent.
C5_NoKey ==
  (pc # "fn" /\ KeyBlank) =>
    /\ net = 0
    /\ quote_xau = NoQuote /\ quote_jpy = NoQuote
    /\ xauusd = None /\ usdjpy = None /\ k_5m = None /\ k_15m = None
    /\ pc # "crashed"
    /\ pc # "done" => ENABLED Next
    /\ pc = "done" => data_json.written /\ AllAbsent(data_json)

\* a blank key, a price from Yahoo, and the snapshot written
C5_Witness ==
  /\ environ = <<" ", " ">> /\ pc = "done" /\ data_json.written
  /\ data_json.price1540 # None /\ AllAbsent(data_json)

\* the sums of x*x and x*y over a window of integer rows, x = xau*jpy
RECURSIVE SigmaXX(_)
SigmaXX(rs) ==
  IF rs = <<>> THEN 0
  ELSE (Head(rs).xau.n * Head(rs).jpy.n) * (Head(rs).xau.n * Head(rs).jpy.n)
       + SigmaXX(Tail(rs))

RECURSIVE SigmaXY(_)
SigmaXY(rs) ==
  IF rs = <<>> THEN 0
  ELSE (Head(rs).xau.n * Head(rs).jpy.n) * Head(rs).etf.n + SigmaXY(Tail(rs))

\* C6: estimate_k gives None for an absent window, for a window of fewer
\* than 5 rows and when the sum of x*x is not positive; otherwise it gives
\* the k with k * sum(x*x) = sum(x*y); x = [1..5], y = [2,4,..,10] gives 2.
C6_EstimateK ==
  (fn = "estimate_k" /\ applied) =>
    /\ IF ~arg.some \/ Len(arg.rows) < 5 THEN ret = None
       ELSE IF SigmaXX(arg.rows) <= 0 THEN ret = None
       ELSE isfinite(ret) /\ ret.n * SigmaXX(arg.rows) = SigmaXY(arg.rows) * ret.d
    /\ arg = ExampleWindow => ret = Fin(2)

C6_Witness == fn = "estimate_k" /\ applied /\ arg = ExampleWindow /\ ret = Fin(2)

\* a window of 5 rows with a zero sum of squares gives None
C6_WitnessDegenerate ==
  /\ fn = "estimate_k" /\ applied /\ arg.some /\ Len(arg.rows) = 5
  /\ SigmaXX(arg.rows) = 0 /\ ret = None

\* the index values all three series have with three finite values
Clean(a) ==
  {t \in Index(a.x) \cap Index(a.j) \cap Index(a.e) :
     isfinite(At(a.x, t)) /\ isfinite(At(a.j, t)) /\ isfinite(At(a.e, t))}

CleanRows(a) ==
  LET idx == SortAsc(Clean(a))
  IN [i \in 1..Len(idx) |->
        [ts |-> idx[i], xau |-> At(a.x, idx[i]), jpy |-> At(a.j, idx[i]),
         etf |-> At(a.e, idx[i])]]

\* C7: align_join gives None if a series is absent; otherwise, with C the
\* rows whose index value is in all three series and whose values are all
\* finite, it gives None when C is empty, C when no tail is asked or C has
\* at most tail rows, and the last tail rows of C otherwise.
C7_AlignJoin ==
  (fn = "align_join" /\ applied) =>
    ret = IF ~arg.x.some \/ ~arg.j.some \/ ~arg.e.some \/ CleanRows(arg) = <<>>
          THEN NoFrame
          ELSE IF arg.tl = 0 \/ Len(CleanRows(arg)) <= arg.tl THEN Frame(CleanRows(arg))
          ELSE Frame(SubSeq(CleanRows(arg), Len(CleanRows(arg)) - arg.tl + 1,
                            Len(CleanRows(arg))))

\* the rows of a /time_series payload whose close is a finite number
RECURSIVE ValidRows(_)
ValidRows(values) ==
  IF values = <<>> THEN <<>>
  ELSE (IF Head(values).close.r = "num"
        THEN <<Row(Head(values).datetime, Fin(Head(values).close.v))>>
        ELSE <<>>) \o ValidRows(Tail(values))

\* C8: td_price gives (None, None) unless the quoted price converts to a
\* finite float; td_series drops each row whose close is non-numeric or
\* non-finite and gives the remaining rows, None only when none remains.
C8_OnlyFinite ==
  /\ (fn = "td_price" /\ applied) =>
       /\ ret.p = None \/ isfinite(ret.p)
       /\ ret.p = None => ret.t = NoTs
  /\ (fn = "td_series" /\ applied /\ arg.key # <<>> /\ arg.resp.st = "ok"
        /\ arg.resp.has_values) =>
       ret.s = IF ValidRows(arg.resp.values) = <<>> THEN NoSeries
               ELSE Series(ValidRows(arg.resp.values))

\* a plausibility check fails on a present live price
CheckFails(xau, jpy) ==
  \/ xau # None /\ (FLt(xau, Fin(1000)) \/ FLt(Fin(8000), xau))
  \/ jpy # None /\ (FLt(jpy, Fin(50)) \/ FLt(Fin(500), jpy))

\* C9: the snapshot has a "warnings" list exactly when a plausibility check
\* fails on a present live price (xauusd below 1000 or above 8000, usdjpy
\* below 50 or above 500), and the checks leave the numeric fields as main
\* computed them.
C9_WarningsIff ==
  data_json.written =>
    /\ data_json.has_warnings <=> CheckFails(data_json.xauusd, data_json.usdjpy)
    /\ data_json.xauusd = xauusd /\ data_json.usdjpy = usdjpy
    /\ data_json.price1540 = price1540
    /\ data_json.k_day = k_day /\ data_json.k_5m = k_5m /\ data_json.k_15m = k_15m

\* C10: k_day, theo_day and dev_day are absent in every run: the day window
\* is the last 3 rows of the daily alignment, below the estimator's minimum.
C10_DayAbsent ==
  /\ k_day = None
  /\ data_json.written =>
       data_json.k_day = None /\ data_json.theo_day = None /\ data_json.dev_day = None

\* the daily alignment had 5 rows or more and k_day is absent all the same
C10_Witness == pc = "x_5" /\ df_rows >= 5 /\ k_day = None

====
